---- MODULE Spec2Model ----
(***************************************************************************)
(* Model of cpu_cache.c: a single-threaded cache benchmark.  main runs     *)
(* five sweep drivers in a fixed order; every driver allocates buffers,    *)
(* fills them, times access kernels over them, prints rows and frees.      *)
(*                                                                         *)
(* Spec        the whole process, one action per statement group, with     *)
(*             every allocation free to fail and every timer difference    *)
(*             drawn from Times.  Sizes and iteration counts are the real  *)
(*             ones; the access loops of a kernel are one step.            *)
(* KernelSpec  the access loops of the five kernels, one step per loop     *)
(*             iteration, over bounded buffer sizes and pass counts.       *)
(***************************************************************************)
EXTENDS Integers, Sequences, FiniteSets, TLC

VARIABLES pc, drv, loc, k, buffer, buf_size, filled,
          alloc_failed, diag, step_failed, row, handled,
          users, frees, live, uaf, order, unchecked_deref, exit_status,
          prev, baseline_measured, kern

pvars == <<pc, drv, loc, k, buffer, buf_size, filled,
           alloc_failed, diag, step_failed, row, handled,
           users, frees, live, uaf, order, unchecked_deref, exit_status,
           prev, baseline_measured>>

vars == <<pvars, kern>>

----------------------------------------------------------------------------
(* Program constants *)

CACHE_LINE_SIZE == 64
L1_CACHE_SIZE == 32 * 1024
L2_CACHE_SIZE == 512 * 1024
L3_CACHE_SIZE == 32 * 1024 * 1024
MIN_SIZE == 4 * 1024
MAX_SIZE == 128 * 1024 * 1024
NUM_ITERATIONS == 1000000
WORD_SIZE == 8

strides == <<1, 2, 4, 8, 16, 32, 64, 128, 256, 512>>
num_strides == Len(strides)
test_size == 1024 * 1024

rw_sizes == <<L1_CACHE_SIZE, L2_CACHE_SIZE, L3_CACHE_SIZE, L3_CACHE_SIZE * 2>>

test_sizes == <<4 * 1024 * 1024, 6 * 1024 * 1024, 8 * 1024 * 1024,
                10 * 1024 * 1024, 12 * 1024 * 1024, 16 * 1024 * 1024,
                24 * 1024 * 1024, 32 * 1024 * 1024, 48 * 1024 * 1024,
                64 * 1024 * 1024>>

\* the three rows of run_cache_thrashing_test: cache size, ways of the
\* "normal" probe, ways of the "thrash" probe
thr_cache == <<L1_CACHE_SIZE, L2_CACHE_SIZE, L3_CACHE_SIZE>>
thr_normal_ways == <<8, 8, 16>>
thr_thrash_ways == <<16, 16, 32>>

----------------------------------------------------------------------------
(* Bounds of the model *)

\* a timer difference end_time - start_time is one of 0..MaxTime
MaxTime == 1
Times == 0 .. MaxTime

----------------------------------------------------------------------------
(* 64-bit size_t arithmetic, on little-endian sequences of 8-bit limbs *)

RECURSIVE Limbs(_, _)
Limbs(n, len) ==
    IF len = 0 THEN <<>> ELSE <<n % 256>> \o Limbs(n \div 256, len - 1)

RECURSIVE ColSum(_, _, _, _)
ColSum(a, b, p, x) ==
    IF x > Len(a) THEN 0
    ELSE (IF p + 1 - x \in 1 .. Len(b) THEN a[x] * b[p + 1 - x] ELSE 0)
         + ColSum(a, b, p, x + 1)

RECURSIVE MulCols(_, _, _, _)
MulCols(a, b, p, carry) ==
    IF p > Len(a) + Len(b) THEN <<>>
    ELSE LET s == carry + ColSum(a, b, p, 1)
         IN  <<s % 256>> \o MulCols(a, b, p + 1, s \div 256)

\* the exact product of two size_t values, 16 limbs
FullMul(x, y) == MulCols(Limbs(x, 8), Limbs(y, 8), 1, 0)

\* size * iterations as the code computes it: size_t, modulo 2^64
SizeMul64(x, y) == SubSeq(FullMul(x, y), 1, 8)

----------------------------------------------------------------------------
(* Iteration scaling *)

IterationsNoFloor(size, floor) == NUM_ITERATIONS \div (size \div MIN_SIZE + 1)

\* int iterations = NUM_ITERATIONS / (size / MIN_SIZE + 1);
\* if (iterations < floor) iterations = floor;
Iterations(size, floor) ==
    LET it == NUM_ITERATIONS \div (size \div MIN_SIZE + 1)
    IN  IF it < floor THEN floor ELSE it

----------------------------------------------------------------------------
(* State helpers *)

LocInit == [i |-> 0, size |-> 0, iterations |-> 0,
            seq_time |-> 0, rand_time |-> 0, read_time |-> 0,
            write_time |-> 0, time |-> 0, baseline_time |-> 0,
            baseline_seq |-> 0, baseline_rand |-> 0,
            normal |-> 0, thrash |-> 0]

KIdle == [name |-> "none", phase |-> "idle", size |-> 0, stride |-> 0,
          ways |-> 0, iterations |-> 0, indices |-> "none", result |-> 0]

NoRow == [kind |-> "none", vals |-> <<>>, den |-> <<>>, bytes |-> <<>>,
          base_measured |-> TRUE]

NoPrev == [size |-> 0, iterations |-> 0]

KernIdle == [pc |-> "off"]

\* the sweep step the driver is in: the size in the latency sweep, the
\* loop index elsewhere
CurStep == IF drv = "latency" THEN loc.size ELSE loc.i

Init ==
    /\ pc = "main"
    /\ drv = "none"
    /\ loc = LocInit
    /\ k = KIdle
    /\ buffer = "none"
    /\ buf_size = 0
    /\ filled = 0
    /\ alloc_failed = FALSE
    /\ diag = 0
    /\ step_failed = FALSE
    /\ row = NoRow
    /\ handled = 0
    /\ users = {}
    /\ frees = 0
    /\ live = 0
    /\ uaf = FALSE
    /\ order = <<>>
    /\ unchecked_deref = FALSE
    /\ exit_status = -1
    /\ prev = NoPrev
    /\ baseline_measured = FALSE
    /\ kern = KernIdle

----------------------------------------------------------------------------
(* Heap and standard-output effects shared by the drivers *)

\* aligned_alloc returned a block of n bytes
AllocOK(n) ==
    /\ buffer' = "live"
    /\ buf_size' = n
    /\ filled' = 0
    /\ users' = {}
    /\ frees' = 0
    /\ live' = live + 1
    /\ alloc_failed' = FALSE
    /\ diag' = 0

\* aligned_alloc returned NULL; the handler printed `printed` diagnostic lines
AllocFail(printed) ==
    /\ buffer' = "NULL"
    /\ buf_size' = 0
    /\ filled' = 0
    /\ users' = {}
    /\ frees' = 0
    /\ live' = live
    /\ alloc_failed' = TRUE
    /\ diag' = printed

\* memset(buffer, c, n)
Memset(n) == filled' = n

NoFree == UNCHANGED <<buffer, frees, live>>

\* free(buffer)
Free ==
    /\ buffer' = "freed"
    /\ frees' = frees + 1
    /\ live' = live - 1

Row(kind, vals, den) ==
    [kind |-> kind, vals |-> vals, den |-> den, bytes |-> <<>>,
     base_measured |-> TRUE]

\* the size of the buffer of the current sweep step
CurSize ==
    CASE drv = "latency" -> loc.size
      [] drv = "stride"  -> test_size
      [] drv = "rw"      -> rw_sizes[loc.i + 1]
      [] drv = "l3"      -> test_sizes[loc.i + 1]

----------------------------------------------------------------------------
(* main, first part *)

\* main: banner, srand(time(NULL)), print_cache_info()
MainStart ==
    /\ pc = "main"
    /\ pc' = "call_lat"
    /\ order' = Append(order, "print_cache_info")
    /\ UNCHANGED <<drv, loc, k, buffer, buf_size, filled, alloc_failed, diag,
                   step_failed, row, handled, users, frees, live, uaf,
                   unchecked_deref, exit_status, prev, baseline_measured, kern>>

\* entry of a sweep driver: header lines, fresh locals
Enter(from, name, fn, to, l) ==
    /\ pc = from
    /\ pc' = to
    /\ drv' = name
    /\ loc' = l
    /\ order' = Append(order, fn)
    /\ handled' = 0
    /\ row' = NoRow
    /\ step_failed' = FALSE
    /\ prev' = NoPrev
    /\ baseline_measured' = FALSE
    /\ UNCHANGED <<k, buffer, buf_size, filled, alloc_failed, diag, users,
                   frees, live, uaf, unchecked_deref, exit_status, kern>>

----------------------------------------------------------------------------
(* run_latency_test *)

LatEnter ==
    Enter("call_lat", "latency", "run_latency_test", "lat_loop",
          [LocInit EXCEPT !.size = MIN_SIZE])

\* for (size = MIN_SIZE; size <= MAX_SIZE; size *= 2) { aligned_alloc ... }
LatAlloc ==
    /\ pc = "lat_loop"
    /\ \/ /\ loc.size > MAX_SIZE
          /\ pc' = "call_stride"
          /\ UNCHANGED <<loc, buffer, buf_size, filled, users, frees, live,
                         alloc_failed, diag, step_failed, row, handled>>
       \/ /\ loc.size <= MAX_SIZE
          /\ AllocFail(1)
          /\ step_failed' = TRUE
          /\ row' = NoRow
          /\ handled' = handled + 1
          /\ loc' = [loc EXCEPT !.size = loc.size * 2]
          /\ pc' = "lat_loop"
       \/ /\ loc.size <= MAX_SIZE
          /\ AllocOK(loc.size)
          /\ step_failed' = FALSE
          /\ row' = NoRow
          /\ pc' = "lat_memset"
          /\ UNCHANGED <<loc, handled>>
    /\ UNCHANGED <<drv, k, uaf, order, unchecked_deref, exit_status, prev,
                   baseline_measured, kern>>

LatMemset ==
    /\ pc = "lat_memset"
    /\ Memset(loc.size)
    /\ pc' = "lat_iter"
    /\ UNCHANGED <<drv, loc, k, buffer, buf_size, alloc_failed, diag,
                   step_failed, row, handled, users, frees, live, uaf, order,
                   unchecked_deref, exit_status, prev, baseline_measured, kern>>

LatIterations ==
    /\ pc = "lat_iter"
    /\ loc' = [loc EXCEPT !.iterations = Iterations(loc.size, 100)]
    /\ pc' = "lat_seq"
    /\ UNCHANGED <<drv, k, buffer, buf_size, filled, alloc_failed, diag,
                   step_failed, row, handled, users, frees, live, uaf, order,
                   unchecked_deref, exit_status, prev, baseline_measured, kern>>

\* bandwidth = (double)(size * iterations) / (seq_time / 1000.0) / 2^30; printf
LatPrint ==
    /\ pc = "lat_print"
    /\ row' = [Row("lat", <<loc.seq_time, loc.rand_time>>, <<loc.seq_time>>)
                 EXCEPT !.bytes = SizeMul64(loc.size, loc.iterations)]
    /\ handled' = handled + 1
    /\ pc' = "lat_free"
    /\ UNCHANGED <<drv, loc, k, buffer, buf_size, filled, alloc_failed, diag,
                   step_failed, users, frees, live, uaf, order,
                   unchecked_deref, exit_status, prev, baseline_measured, kern>>

LatFree ==
    /\ pc = "lat_free"
    /\ Free
    /\ prev' = [size |-> loc.size, iterations |-> loc.iterations]
    /\ loc' = [loc EXCEPT !.size = loc.size * 2, !.iterations = 0,
                          !.seq_time = 0, !.rand_time = 0]
    /\ pc' = "lat_loop"
    /\ UNCHANGED <<drv, k, buf_size, filled, alloc_failed, diag, step_failed,
                   row, handled, users, uaf, order, unchecked_deref,
                   exit_status, baseline_measured, kern>>

----------------------------------------------------------------------------
(* run_stride_test *)

StrideEnter ==
    Enter("call_stride", "stride", "run_stride_test", "stride_alloc", LocInit)

\* one aligned_alloc before the loop; on failure the driver returns
StrideAlloc ==
    /\ pc = "stride_alloc"
    /\ \/ /\ AllocFail(1)
          /\ step_failed' = TRUE
          /\ pc' = "call_thr"
       \/ /\ AllocOK(test_size)
          /\ step_failed' = FALSE
          /\ pc' = "stride_memset"
    /\ UNCHANGED <<drv, loc, k, row, handled, uaf, order, unchecked_deref,
                   exit_status, prev, baseline_measured, kern>>

StrideMemset ==
    /\ pc = "stride_memset"
    /\ Memset(test_size)
    /\ pc' = "stride_base"
    /\ UNCHANGED <<drv, loc, k, buffer, buf_size, alloc_failed, diag,
                   step_failed, row, handled, users, frees, live, uaf, order,
                   unchecked_deref, exit_status, prev, baseline_measured, kern>>

\* for (i = 0; i < num_strides; i++)
StrideLoop ==
    /\ pc = "stride_loop"
    /\ \/ /\ loc.i < num_strides
          /\ row' = NoRow
          /\ pc' = "stride_time"
       \/ /\ loc.i >= num_strides
          /\ pc' = "stride_free"
          /\ UNCHANGED row
    /\ UNCHANGED <<drv, loc, k, buffer, buf_size, filled, alloc_failed, diag,
                   step_failed, handled, users, frees, live, uaf, order,
                   unchecked_deref, exit_status, prev, baseline_measured, kern>>

\* efficiency = baseline_time / time * 100.0; printf
StridePrint ==
    /\ pc = "stride_print"
    /\ row' = Row("stride", <<loc.time, loc.baseline_time>>, <<loc.time>>)
    /\ handled' = handled + 1
    /\ loc' = [loc EXCEPT !.i = loc.i + 1, !.time = 0]
    /\ pc' = "stride_loop"
    /\ UNCHANGED <<drv, k, buffer, buf_size, filled, alloc_failed, diag,
                   step_failed, users, frees, live, uaf, order,
                   unchecked_deref, exit_status, prev, baseline_measured, kern>>

StrideFree ==
    /\ pc = "stride_free"
    /\ Free
    /\ pc' = "call_thr"
    /\ UNCHANGED <<drv, loc, k, buf_size, filled, alloc_failed, diag,
                   step_failed, row, handled, users, uaf, order,
                   unchecked_deref, exit_status, prev, baseline_measured, kern>>

----------------------------------------------------------------------------
(* run_cache_thrashing_test: three rows, two associativity probes each *)

ThrEnter ==
    Enter("call_thr", "thrash", "run_cache_thrashing_test", "thr_normal",
          LocInit)

\* printf(label, normal, thrash / normal), whatever the probes returned
ThrPrint ==
    /\ pc = "thr_print"
    /\ row' = Row("thrash", <<loc.normal, loc.thrash>>, <<loc.normal>>)
    /\ handled' = handled + 1
    /\ IF loc.i + 1 < Len(thr_cache)
         THEN /\ loc' = [loc EXCEPT !.i = loc.i + 1, !.normal = 0, !.thrash = 0]
              /\ pc' = "thr_normal"
         ELSE /\ pc' = "call_rw"
              /\ UNCHANGED loc
    /\ UNCHANGED <<drv, k, buffer, buf_size, filled, alloc_failed, diag,
                   step_failed, users, frees, live, uaf, order,
                   unchecked_deref, exit_status, prev, baseline_measured, kern>>

----------------------------------------------------------------------------
(* run_read_write_comparison *)

RwEnter ==
    Enter("call_rw", "rw", "run_read_write_comparison", "rw_loop", LocInit)

\* for (i = 0; i < 4; i++) { aligned_alloc; if (!buffer) continue; ... }
RwAlloc ==
    /\ pc = "rw_loop"
    /\ \/ /\ loc.i >= Len(rw_sizes)
          /\ pc' = "call_l3"
          /\ UNCHANGED <<loc, buffer, buf_size, filled, users, frees, live,
                         alloc_failed, diag, step_failed, row, handled>>
       \/ /\ loc.i < Len(rw_sizes)
          /\ AllocFail(0)
          /\ step_failed' = TRUE
          /\ row' = NoRow
          /\ handled' = handled + 1
          /\ loc' = [loc EXCEPT !.i = loc.i + 1]
          /\ pc' = "rw_loop"
       \/ /\ loc.i < Len(rw_sizes)
          /\ AllocOK(rw_sizes[loc.i + 1])
          /\ step_failed' = FALSE
          /\ row' = NoRow
          /\ pc' = "rw_memset"
          /\ UNCHANGED <<loc, handled>>
    /\ UNCHANGED <<drv, k, uaf, order, unchecked_deref, exit_status, prev,
                   baseline_measured, kern>>

RwMemset ==
    /\ pc = "rw_memset"
    /\ Memset(rw_sizes[loc.i + 1])
    /\ pc' = "rw_iter"
    /\ UNCHANGED <<drv, loc, k, buffer, buf_size, alloc_failed, diag,
                   step_failed, row, handled, users, frees, live, uaf, order,
                   unchecked_deref, exit_status, prev, baseline_measured, kern>>

RwIterations ==
    /\ pc = "rw_iter"
    /\ loc' = [loc EXCEPT !.iterations = Iterations(rw_sizes[loc.i + 1], 100)]
    /\ pc' = "rw_read"
    /\ UNCHANGED <<drv, k, buffer, buf_size, filled, alloc_failed, diag,
                   step_failed, row, handled, users, frees, live, uaf, order,
                   unchecked_deref, exit_status, prev, baseline_measured, kern>>

RwPrint ==
    /\ pc = "rw_print"
    /\ row' = Row("rw", <<loc.read_time, loc.write_time>>, <<loc.read_time>>)
    /\ handled' = handled + 1
    /\ pc' = "rw_free"
    /\ UNCHANGED <<drv, loc, k, buffer, buf_size, filled, alloc_failed, diag,
                   step_failed, users, frees, live, uaf, order,
                   unchecked_deref, exit_status, prev, baseline_measured, kern>>

RwFree ==
    /\ pc = "rw_free"
    /\ Free
    /\ prev' = [size |-> rw_sizes[loc.i + 1], iterations |-> loc.iterations]
    /\ loc' = [loc EXCEPT !.i = loc.i + 1, !.iterations = 0,
                          !.read_time = 0, !.write_time = 0]
    /\ pc' = "rw_loop"
    /\ UNCHANGED <<drv, k, buf_size, filled, alloc_failed, diag, step_failed,
                   row, handled, users, uaf, order, unchecked_deref,
                   exit_status, baseline_measured, kern>>

----------------------------------------------------------------------------
(* run_detailed_l3_test, called by print_analysis *)

\* double baseline_seq = 0, baseline_rand = 0;
L3Enter ==
    Enter("call_l3", "l3", "run_detailed_l3_test", "l3_loop", LocInit)

L3Alloc ==
    /\ pc = "l3_loop"
    /\ \/ /\ loc.i >= Len(test_sizes)
          /\ pc' = "call_analyze"
          /\ UNCHANGED <<loc, buffer, buf_size, filled, users, frees, live,
                         alloc_failed, diag, step_failed, row, handled>>
       \/ /\ loc.i < Len(test_sizes)
          /\ AllocFail(1)
          /\ step_failed' = TRUE
          /\ row' = NoRow
          /\ handled' = handled + 1
          /\ loc' = [loc EXCEPT !.i = loc.i + 1]
          /\ pc' = "l3_loop"
       \/ /\ loc.i < Len(test_sizes)
          /\ AllocOK(test_sizes[loc.i + 1])
          /\ step_failed' = FALSE
          /\ row' = NoRow
          /\ pc' = "l3_memset"
          /\ UNCHANGED <<loc, handled>>
    /\ UNCHANGED <<drv, k, uaf, order, unchecked_deref, exit_status, prev,
                   baseline_measured, kern>>

L3Memset ==
    /\ pc = "l3_memset"
    /\ Memset(test_sizes[loc.i + 1])
    /\ pc' = "l3_iter"
    /\ UNCHANGED <<drv, loc, k, buffer, buf_size, alloc_failed, diag,
                   step_failed, row, handled, users, frees, live, uaf, order,
                   unchecked_deref, exit_status, prev, baseline_measured, kern>>

L3Iterations ==
    /\ pc = "l3_iter"
    /\ loc' = [loc EXCEPT !.iterations = Iterations(test_sizes[loc.i + 1], 50)]
    /\ pc' = "l3_seq"
    /\ UNCHANGED <<drv, k, buffer, buf_size, filled, alloc_failed, diag,
                   step_failed, row, handled, users, frees, live, uaf, order,
                   unchecked_deref, exit_status, prev, baseline_measured, kern>>

\* if (i == 0) { baseline_seq = seq_time; baseline_rand = rand_time; }
\* seq_ratio = seq_time / baseline_seq; rand_ratio = rand_time / baseline_rand;
\* printf
L3Print ==
    /\ pc = "l3_print"
    /\ LET bs == IF loc.i = 0 THEN loc.seq_time ELSE loc.baseline_seq
           br == IF loc.i = 0 THEN loc.rand_time ELSE loc.baseline_rand
           bm == (loc.i = 0) \/ baseline_measured
       IN  /\ loc' = [loc EXCEPT !.baseline_seq = bs, !.baseline_rand = br]
           /\ baseline_measured' = bm
           /\ row' = [Row("l3", <<loc.seq_time, loc.rand_time>>, <<bs, br>>)
                        EXCEPT !.base_measured = bm]
    /\ handled' = handled + 1
    /\ pc' = "l3_free"
    /\ UNCHANGED <<drv, k, buffer, buf_size, filled, alloc_failed, diag,
                   step_failed, users, frees, live, uaf, order,
                   unchecked_deref, exit_status, prev, kern>>

L3Free ==
    /\ pc = "l3_free"
    /\ Free
    /\ prev' = [size |-> test_sizes[loc.i + 1], iterations |-> loc.iterations]
    /\ loc' = [loc EXCEPT !.i = loc.i + 1, !.iterations = 0,
                          !.seq_time = 0, !.rand_time = 0]
    /\ pc' = "l3_loop"
    /\ UNCHANGED <<drv, k, buf_size, filled, alloc_failed, diag, step_failed,
                   row, handled, users, uaf, order, unchecked_deref,
                   exit_status, baseline_measured, kern>>

----------------------------------------------------------------------------
(* main, last part *)

\* print_analysis: analyze_results() after run_detailed_l3_test()
AnalyzeResults ==
    /\ pc = "call_analyze"
    /\ order' = Append(order, "analyze_results")
    /\ pc' = "main_ret"
    /\ UNCHANGED <<drv, loc, k, buffer, buf_size, filled, alloc_failed, diag,
                   step_failed, row, handled, users, frees, live, uaf,
                   unchecked_deref, exit_status, prev, baseline_measured, kern>>

\* return 0;
MainReturn ==
    /\ pc = "main_ret"
    /\ exit_status' = 0
    /\ pc' = "done"
    /\ UNCHANGED <<drv, loc, k, buffer, buf_size, filled, alloc_failed, diag,
                   step_failed, row, handled, users, frees, live, uaf, order,
                   unchecked_deref, prev, baseline_measured, kern>>

----------------------------------------------------------------------------
(* Kernel calls of the drivers *)

CallSites == {"lat_seq", "lat_rand", "stride_base", "stride_time",
              "thr_normal", "thr_thrash", "rw_read", "rw_write",
              "l3_seq", "l3_rand"}

SiteKernel(p) ==
    CASE p \in {"lat_seq", "rw_read", "l3_seq"}  -> "sequential"
      [] p \in {"lat_rand", "l3_rand"}           -> "random"
      [] p \in {"stride_base", "stride_time"}    -> "stride"
      [] p = "rw_write"                          -> "write"
      [] p \in {"thr_normal", "thr_thrash"}      -> "assoc"

\* the size argument: the buffer size, or cache_size for the probe
SiteSize(p) ==
    IF p \in {"thr_normal", "thr_thrash"} THEN thr_cache[loc.i + 1]
    ELSE CurSize

SiteStride(p) ==
    CASE p = "stride_base" -> 1
      [] p = "stride_time" -> strides[loc.i + 1]
      [] OTHER             -> 0

SiteWays(p) ==
    CASE p = "thr_normal" -> thr_normal_ways[loc.i + 1]
      [] p = "thr_thrash" -> thr_thrash_ways[loc.i + 1]
      [] OTHER            -> 0

SiteIterations(p) ==
    CASE p \in {"stride_base", "stride_time"} -> NUM_ITERATIONS \div 100
      [] p \in {"thr_normal", "thr_thrash"}   -> NUM_ITERATIONS \div 10
      [] OTHER                                -> loc.iterations

\* the local that receives the return value, and the statement after the call
SiteDst(p) ==
    CASE p \in {"lat_seq", "l3_seq"}   -> "seq_time"
      [] p \in {"lat_rand", "l3_rand"} -> "rand_time"
      [] p = "stride_base"             -> "baseline_time"
      [] p = "stride_time"             -> "time"
      [] p = "thr_normal"              -> "normal"
      [] p = "thr_thrash"              -> "thrash"
      [] p = "rw_read"                 -> "read_time"
      [] p = "rw_write"                -> "write_time"

SiteNext(p) ==
    CASE p = "lat_seq"     -> "lat_rand"
      [] p = "lat_rand"    -> "lat_print"
      [] p = "stride_base" -> "stride_loop"
      [] p = "stride_time" -> "stride_print"
      [] p = "thr_normal"  -> "thr_thrash"
      [] p = "thr_thrash"  -> "thr_print"
      [] p = "rw_read"     -> "rw_write"
      [] p = "rw_write"    -> "rw_print"
      [] p = "l3_seq"      -> "l3_rand"
      [] p = "l3_rand"     -> "l3_print"

EntryPhase(name) ==
    CASE name = "random" -> "malloc"
      [] name = "assoc"  -> "alloc"
      [] OTHER           -> "start"

\* a driver calls a kernel; the first probe of a thrashing row starts the row
Call ==
    /\ pc \in CallSites
    /\ k.phase = "idle"
    /\ k' = [name |-> SiteKernel(pc), phase |-> EntryPhase(SiteKernel(pc)),
             size |-> SiteSize(pc), stride |-> SiteStride(pc),
             ways |-> SiteWays(pc), iterations |-> SiteIterations(pc),
             indices |-> "none", result |-> 0]
    /\ IF pc = "thr_normal"
         THEN row' = NoRow /\ step_failed' = FALSE
         ELSE UNCHANGED <<row, step_failed>>
    /\ UNCHANGED <<pc, drv, loc, buffer, buf_size, filled, alloc_failed, diag,
                   handled, users, frees, live, uaf, order, unchecked_deref,
                   exit_status, prev, baseline_measured, kern>>

\* the kernel returns its result into the caller's local
Return ==
    /\ pc \in CallSites
    /\ k.phase = "ret"
    /\ loc' = [loc EXCEPT ![SiteDst(pc)] = k.result]
    /\ pc' = SiteNext(pc)
    /\ k' = KIdle
    /\ UNCHANGED <<drv, buffer, buf_size, filled, alloc_failed, diag,
                   step_failed, row, handled, users, frees, live, uaf, order,
                   unchecked_deref, exit_status, prev, baseline_measured, kern>>

----------------------------------------------------------------------------
(* The kernels, as the drivers see them *)

\* a store or load through the unchecked NULL result of malloc: undefined
\* behaviour, which either faults or goes unnoticed
NullDeref(next) ==
    \/ /\ pc' = "crashed"
       /\ k' = [k EXCEPT !.phase = "dead"]
       /\ unchecked_deref' = TRUE
    \/ /\ k' = [k EXCEPT !.phase = next]
       /\ unchecked_deref' = TRUE
       /\ UNCHANGED pc

\* size_t* indices = malloc(num_elements * sizeof(size_t));  (not checked)
RandMalloc ==
    /\ k.phase = "malloc"
    /\ \/ /\ k' = [k EXCEPT !.indices = "live", !.phase = "gen"]
          /\ live' = live + 1
       \/ /\ k' = [k EXCEPT !.indices = "NULL", !.phase = "gen"]
          /\ UNCHANGED live
    /\ UNCHANGED <<pc, drv, loc, buffer, buf_size, filled, alloc_failed, diag,
                   step_failed, row, handled, users, frees, uaf, order,
                   unchecked_deref, exit_status, prev, baseline_measured, kern>>

\* for (i < num_elements) indices[i] = (rand() % num_elements) * sizeof(size_t);
RandGen ==
    /\ k.phase = "gen"
    /\ IF k.indices = "NULL" /\ k.size \div WORD_SIZE > 0
         THEN NullDeref("start")
         ELSE /\ k' = [k EXCEPT !.phase = "start"]
              /\ UNCHANGED <<pc, unchecked_deref>>
    /\ UNCHANGED <<drv, loc, buffer, buf_size, filled, alloc_failed, diag,
                   step_failed, row, handled, users, frees, live, uaf, order,
                   exit_status, prev, baseline_measured, kern>>

\* char* buffer = aligned_alloc(4096, total_size); if (!buffer) { printf; return -1; }
AssocAlloc ==
    /\ k.phase = "alloc"
    /\ \/ /\ AllocFail(1)
          /\ step_failed' = TRUE
          /\ k' = [k EXCEPT !.result = -1, !.phase = "ret"]
       \/ /\ AllocOK(k.size * 2)
          /\ k' = [k EXCEPT !.phase = "memset"]
          /\ UNCHANGED step_failed
    /\ UNCHANGED <<pc, drv, loc, row, handled, uaf, order, unchecked_deref,
                   exit_status, prev, baseline_measured, kern>>

AssocMemsetShort ==
    /\ k.phase = "memset"
    /\ Memset(k.size)
    /\ k' = [k EXCEPT !.phase = "start"]
    /\ UNCHANGED <<pc, drv, loc, buffer, buf_size, alloc_failed, diag,
                   step_failed, row, handled, users, frees, live, uaf, order,
                   unchecked_deref, exit_status, prev, baseline_measured, kern>>

\* memset(buffer, 0, total_size);
AssocMemset ==
    /\ k.phase = "memset"
    /\ Memset(k.size * 2)
    /\ k' = [k EXCEPT !.phase = "start"]
    /\ UNCHANGED <<pc, drv, loc, buffer, buf_size, alloc_failed, diag,
                   step_failed, row, handled, users, frees, live, uaf, order,
                   unchecked_deref, exit_status, prev, baseline_measured, kern>>

\* double start_time = get_time_ms();
KTimerStart ==
    /\ k.phase = "start"
    /\ k' = [k EXCEPT !.phase = "loop"]
    /\ UNCHANGED <<pc, drv, loc, buffer, buf_size, filled, alloc_failed, diag,
                   step_failed, row, handled, users, frees, live, uaf, order,
                   unchecked_deref, exit_status, prev, baseline_measured, kern>>

\* the number of buffer offsets one pass of the kernel touches
PassLength ==
    CASE k.name \in {"sequential", "write"} ->
             (k.size + CACHE_LINE_SIZE - 1) \div CACHE_LINE_SIZE
      [] k.name = "stride" -> (k.size + k.stride - 1) \div k.stride
      [] k.name = "random" -> k.size \div WORD_SIZE
      [] k.name = "assoc"  -> k.ways + 1

\* the timed loops: `iterations` passes over the buffer
KLoop ==
    /\ k.phase = "loop"
    /\ LET touched == k.iterations > 0 /\ PassLength > 0
       IN  /\ uaf' = (uaf \/ (touched /\ buffer # "live"))
           /\ users' = IF touched /\ pc # "stride_base"
                         THEN users \cup {<<drv, CurStep>>}
                         ELSE users
           /\ IF touched /\ k.name = "random" /\ k.indices = "NULL"
                THEN NullDeref("end")
                ELSE /\ k' = [k EXCEPT !.phase = "end"]
                     /\ UNCHANGED <<pc, unchecked_deref>>
    /\ UNCHANGED <<drv, loc, buffer, buf_size, filled, alloc_failed, diag,
                   step_failed, row, handled, frees, live, order,
                   exit_status, prev, baseline_measured, kern>>

\* double end_time = get_time_ms();  the result is end_time - start_time
KTimerEnd ==
    /\ k.phase = "end"
    /\ \E t \in Times :
          k' = [k EXCEPT !.result = t,
                         !.phase = IF k.name \in {"random", "assoc"}
                                     THEN "free" ELSE "ret"]
    /\ UNCHANGED <<pc, drv, loc, buffer, buf_size, filled, alloc_failed, diag,
                   step_failed, row, handled, users, frees, live, uaf, order,
                   unchecked_deref, exit_status, prev, baseline_measured, kern>>

\* free(indices); return
RandFree ==
    /\ k.phase = "free"
    /\ k.name = "random"
    /\ live' = IF k.indices = "live" THEN live - 1 ELSE live
    /\ k' = [k EXCEPT !.indices = "none", !.phase = "ret"]
    /\ UNCHANGED <<pc, drv, loc, buffer, buf_size, filled, alloc_failed, diag,
                   step_failed, row, handled, users, frees, uaf, order,
                   unchecked_deref, exit_status, prev, baseline_measured, kern>>

\* free(buffer); return
AssocFree ==
    /\ k.phase = "free"
    /\ k.name = "assoc"
    /\ Free
    /\ k' = [k EXCEPT !.phase = "ret"]
    /\ UNCHANGED <<pc, drv, loc, buf_size, filled, alloc_failed, diag,
                   step_failed, row, handled, users, uaf, order,
                   unchecked_deref, exit_status, prev, baseline_measured, kern>>

----------------------------------------------------------------------------
(* The process *)

Next ==
    \/ MainStart
    \/ LatEnter \/ LatAlloc \/ LatMemset \/ LatIterations \/ LatPrint \/ LatFree
    \/ StrideEnter \/ StrideAlloc \/ StrideMemset \/ StrideLoop
    \/ StridePrint \/ StrideFree
    \/ ThrEnter \/ ThrPrint
    \/ RwEnter \/ RwAlloc \/ RwMemset \/ RwIterations \/ RwPrint \/ RwFree
    \/ L3Enter \/ L3Alloc \/ L3Memset \/ L3Iterations \/ L3Print \/ L3Free
    \/ AnalyzeResults \/ MainReturn
    \/ Call \/ Return
    \/ RandMalloc \/ RandGen \/ AssocAlloc \/ AssocMemset
    \/ KTimerStart \/ KLoop \/ KTimerEnd \/ RandFree \/ AssocFree

Spec == Init /\ [][Next]_vars

----------------------------------------------------------------------------
(* KernelSpec: the access loops of the kernels, one step per iteration.    *)
(* kern holds the locals of one kernel invocation and what it touched:     *)
(*   visited    the buffer offsets touched in the pass under way           *)
(*   log        the completed passes, in order                             *)
(*   timed      a first timer reading was taken, the second not yet        *)
(*   rand_calls calls of rand() in this invocation                         *)
(*   run, run1  the invocation number and the log of the first invocation  *)

\* buffer sizes 0..MaxSize for the sequential, write and strided kernels
MaxSize == 130
\* buffer sizes 0..MaxRandSize for the random kernel
MaxRandSize == 33
\* pass counts 0..MaxIter
MaxIter == 2
\* srand seeds 0..MaxSeed; rand() returns 0..RandMax
MaxSeed == 2
RandMax == 7

\* srand(seed): the generator's state after seeding
Srand(seed) == seed % (RandMax + 1)

\* rand(): the next state of the generator, which is also the value returned
RandNext(s) == (5 * s + 3) % (RandMax + 1)

KStart(name, size, stride, ways, iterations, seed) ==
    [pc |-> CASE name = "random" -> "malloc"
              [] name = "assoc"  -> "alloc"
              [] OTHER           -> "start",
     name |-> name, size |-> size, stride |-> stride, ways |-> ways,
     iterations |-> iterations, i |-> 0, j |-> 0,
     indices |-> <<>>, indices_ptr |-> "none",
     rng |-> Srand(seed), seed |-> seed, rand_calls |-> 0,
     visited |-> <<>>, log |-> <<>>, timed |-> FALSE, timers |-> 0,
     run |-> 1, run1 |-> <<>>,
     buf |-> IF name = "assoc" THEN "none" ELSE "live",
     buf_bytes |-> IF name = "assoc" THEN 0 ELSE size,
     null_deref |-> FALSE, result |-> 0]

KernStarts ==
    { KStart(n, s, 0, 0, it, 0) :
        n \in {"sequential", "write"}, s \in 0 .. MaxSize, it \in 0 .. MaxIter }
    \cup
    { KStart("stride", s, strides[x], 0, it, 0) :
        s \in 0 .. MaxSize, x \in 1 .. num_strides, it \in 0 .. MaxIter }
    \cup
    { KStart("random", s, 0, 0, it, sd) :
        s \in 0 .. MaxRandSize, it \in 0 .. MaxIter, sd \in 0 .. MaxSeed }
    \cup
    UNION { { KStart("assoc", thr_cache[x], 0, w, it, 0) :
                w \in {thr_normal_ways[x], thr_thrash_ways[x]},
                it \in 0 .. MaxIter } : x \in 1 .. Len(thr_cache) }

KInit ==
    /\ kern \in KernStarts
    /\ pc = "main"
    /\ drv = "none"
    /\ loc = LocInit
    /\ k = KIdle
    /\ buffer = "none"
    /\ buf_size = 0
    /\ filled = 0
    /\ alloc_failed = FALSE
    /\ diag = 0
    /\ step_failed = FALSE
    /\ row = NoRow
    /\ handled = 0
    /\ users = {}
    /\ frees = 0
    /\ live = 0
    /\ uaf = FALSE
    /\ order = <<>>
    /\ unchecked_deref = FALSE
    /\ exit_status = -1
    /\ prev = NoPrev
    /\ baseline_measured = FALSE

(* The frame every kernel shares: timer, `iterations` passes, timer *)

\* double start_time = get_time_ms();
TimerStartOf(name) ==
    /\ kern.name = name
    /\ kern.pc = "start"
    /\ kern' = [kern EXCEPT !.pc = "outer", !.timed = TRUE,
                            !.timers = kern.timers + 1]
    /\ UNCHANGED pvars

\* for (int i = 0; i < iterations; i++) { inner loop from its first index
OuterOf(name) ==
    /\ kern.name = name
    /\ kern.pc = "outer"
    /\ IF kern.i < kern.iterations
         THEN kern' = [kern EXCEPT !.pc = "inner", !.j = 0, !.visited = <<>>]
         ELSE kern' = [kern EXCEPT !.pc = "end"]
    /\ UNCHANGED pvars

\* one iteration of the inner loop: touch ptr[off], advance the index
AccessOf(name, more, off, step) ==
    /\ kern.name = name
    /\ kern.pc = "inner"
    /\ more
    /\ kern' = [kern EXCEPT !.visited = Append(kern.visited, off),
                            !.j = kern.j + step]
    /\ UNCHANGED pvars

\* the inner loop's condition fails: the pass is over, i++
PassEndOf(name, more) ==
    /\ kern.name = name
    /\ kern.pc = "inner"
    /\ ~more
    /\ kern' = [kern EXCEPT !.pc = "outer", !.i = kern.i + 1,
                            !.log = Append(kern.log, kern.visited),
                            !.visited = <<>>]
    /\ UNCHANGED pvars

\* double end_time = get_time_ms(); ... return end_time - start_time;
TimerEndOf(name, next) ==
    /\ kern.name = name
    /\ kern.pc = "end"
    /\ \E t \in Times :
          kern' = [kern EXCEPT !.pc = next, !.timed = FALSE,
                               !.timers = kern.timers + 1, !.result = t]
    /\ UNCHANGED pvars

(* benchmark_sequential_access *)

KSeqMoreLE == kern.j <= kern.size

\* j < size
KSeqMore == kern.j < kern.size

KSeqTimerStart == TimerStartOf("sequential")
KSeqOuter == OuterOf("sequential")
KSeqAccess == AccessOf("sequential", KSeqMore, kern.j, CACHE_LINE_SIZE)
KSeqPassEnd == PassEndOf("sequential", KSeqMore)
KSeqTimerEnd == TimerEndOf("sequential", "ret")

(* benchmark_write_access *)

KWriteMore == kern.j < kern.size

KWriteTimerStart == TimerStartOf("write")
KWriteOuter == OuterOf("write")
KWriteAccess == AccessOf("write", KWriteMore, kern.j, CACHE_LINE_SIZE)
KWritePassEnd == PassEndOf("write", KWriteMore)
KWriteTimerEnd == TimerEndOf("write", "ret")

(* benchmark_stride_access *)

KStrideMore == kern.j < kern.size

KStrideTimerStart == TimerStartOf("stride")
KStrideOuter == OuterOf("stride")
KStrideAccess == AccessOf("stride", KStrideMore, kern.j, kern.stride)
KStridePassEnd == PassEndOf("stride", KStrideMore)
KStrideTimerEnd == TimerEndOf("stride", "ret")

(* benchmark_random_access *)

num_elements == kern.size \div WORD_SIZE

RandIndexNoMod(r, n) == r * WORD_SIZE

\* (rand() % num_elements) * sizeof(size_t)
RandIndex(r, n) == (r % n) * WORD_SIZE

\* size_t* indices = malloc(num_elements * sizeof(size_t));  (not checked)
KRandMalloc ==
    /\ kern.name = "random"
    /\ kern.pc = "malloc"
    /\ \E p \in {"live", "NULL"} :
          kern' = [kern EXCEPT !.pc = "gen", !.indices_ptr = p, !.i = 0]
    /\ UNCHANGED pvars

\* indices[i] = (rand() % num_elements) * sizeof(size_t);  i++
\* through a NULL indices the store is undefined: here it goes unnoticed and
\* the value is read back later
KRandGen ==
    /\ kern.name = "random"
    /\ kern.pc = "gen"
    /\ kern.i < num_elements
    /\ LET r == RandNext(kern.rng)
       IN  kern' = [kern EXCEPT
                      !.rng = r,
                      !.rand_calls = kern.rand_calls + 1,
                      !.indices = Append(kern.indices, RandIndex(r, num_elements)),
                      !.i = kern.i + 1,
                      !.null_deref = kern.null_deref \/ (kern.indices_ptr = "NULL")]
    /\ UNCHANGED pvars

\* the same store or a later load through a NULL indices, faulting
KRandFault ==
    /\ kern.name = "random"
    /\ kern.indices_ptr = "NULL"
    /\ \/ kern.pc = "gen" /\ kern.i < num_elements
       \/ kern.pc = "inner" /\ kern.j < num_elements
    /\ kern' = [kern EXCEPT !.pc = "crashed", !.null_deref = TRUE]
    /\ UNCHANGED pvars

\* the generating loop ends
KRandGenDone ==
    /\ kern.name = "random"
    /\ kern.pc = "gen"
    /\ ~(kern.i < num_elements)
    /\ kern' = [kern EXCEPT !.pc = "start", !.i = 0]
    /\ UNCHANGED pvars

KRandMore == kern.j < num_elements

KRandTimerStart == TimerStartOf("random")
KRandOuter == OuterOf("random")

KRandAccessRedraw ==
    /\ kern.name = "random"
    /\ kern.pc = "inner"
    /\ KRandMore
    /\ LET r == RandNext(kern.rng)
       IN  kern' = [kern EXCEPT
                      !.rng = r,
                      !.rand_calls = kern.rand_calls + 1,
                      !.visited = Append(kern.visited, RandIndex(r, num_elements)),
                      !.j = kern.j + 1]
    /\ UNCHANGED pvars

\* dummy = ptr[indices[j]];
KRandAccess == AccessOf("random", KRandMore, kern.indices[kern.j + 1], 1)
KRandPassEnd == PassEndOf("random", KRandMore)
KRandTimerEnd == TimerEndOf("random", "free")

\* free(indices); return
KRandFree ==
    /\ kern.name = "random"
    /\ kern.pc = "free"
    /\ kern' = [kern EXCEPT !.pc = "ret",
                            !.indices_ptr = IF kern.indices_ptr = "live"
                                              THEN "freed" ELSE kern.indices_ptr]
    /\ UNCHANGED pvars

\* the caller seeds the generator again with the same seed and calls the
\* kernel a second time with the same size and pass count
KReseed ==
    /\ kern.name = "random"
    /\ kern.pc = "ret"
    /\ kern.run = 1
    /\ kern' = [KStart("random", kern.size, 0, 0, kern.iterations, kern.seed)
                  EXCEPT !.run = 2, !.run1 = kern.log]
    /\ UNCHANGED pvars

(* benchmark_associativity *)

\* size_t stride = cache_size / ways;
AssocStride == kern.size \div kern.ways

\* size_t total_size = cache_size * 2; aligned_alloc; if (!buffer) return -1;
KAssocAlloc ==
    /\ kern.name = "assoc"
    /\ kern.pc = "alloc"
    /\ \/ kern' = [kern EXCEPT !.pc = "ret", !.buf = "NULL", !.result = -1]
       \/ kern' = [kern EXCEPT !.pc = "memset", !.buf = "live",
                               !.buf_bytes = kern.size * 2]
    /\ UNCHANGED pvars

\* memset(buffer, 0, total_size);
KAssocMemset ==
    /\ kern.name = "assoc"
    /\ kern.pc = "memset"
    /\ kern' = [kern EXCEPT !.pc = "start"]
    /\ UNCHANGED pvars

\* w < ways + 1
KAssocMore == kern.j < kern.ways + 1

KAssocTimerStart == TimerStartOf("assoc")
KAssocOuter == OuterOf("assoc")
\* dummy = ptr[w * stride];
KAssocAccess == AccessOf("assoc", KAssocMore, kern.j * AssocStride, 1)
KAssocPassEnd == PassEndOf("assoc", KAssocMore)
KAssocTimerEnd == TimerEndOf("assoc", "free")

\* free(buffer); return
KAssocFree ==
    /\ kern.name = "assoc"
    /\ kern.pc = "free"
    /\ kern' = [kern EXCEPT !.pc = "ret", !.buf = "freed"]
    /\ UNCHANGED pvars

KNext ==
    \/ KSeqTimerStart \/ KSeqOuter \/ KSeqAccess \/ KSeqPassEnd \/ KSeqTimerEnd
    \/ KWriteTimerStart \/ KWriteOuter \/ KWriteAccess \/ KWritePassEnd
    \/ KWriteTimerEnd
    \/ KStrideTimerStart \/ KStrideOuter \/ KStrideAccess \/ KStridePassEnd
    \/ KStrideTimerEnd
    \/ KRandMalloc \/ KRandGen \/ KRandFault \/ KRandGenDone
    \/ KRandTimerStart \/ KRandOuter \/ KRandAccess \/ KRandPassEnd
    \/ KRandTimerEnd \/ KRandFree \/ KReseed
    \/ KAssocAlloc \/ KAssocMemset \/ KAssocTimerStart \/ KAssocOuter
    \/ KAssocAccess \/ KAssocPassEnd \/ KAssocTimerEnd \/ KAssocFree

KernelSpec == KInit /\ [][KNext]_vars

----------------------------------------------------------------------------
(* Properties of the process (Spec) *)

\* the sizes MIN_SIZE, 2*MIN_SIZE, ... up to MAX_SIZE, counted
RECURSIVE Doublings(_)
Doublings(size) == IF size > MAX_SIZE THEN 0 ELSE 1 + Doublings(size * 2)

\* the number of sweep steps each driver is configured with
NumSteps(d) ==
    CASE d = "latency" -> Doublings(MIN_SIZE)
      [] d = "stride"  -> num_strides
      [] d = "thrash"  -> Len(thr_cache)
      [] d = "rw"      -> Len(rw_sizes)
      [] d = "l3"      -> Len(test_sizes)

DriverExits == {"call_stride", "call_thr", "call_rw", "call_l3", "call_analyze"}

\* C1: a sweep step whose allocation failed prints no measurement row (so no
\* metric derived from it reaches the output), and a driver that is over has
\* handled every one of its configured steps, as a row or as a skipped step.
C1_FailedStepsSkipped ==
    /\ row.kind # "none" => ~step_failed
    /\ pc \in DriverExits => handled = NumSteps(drv)

\* C2: once the handler of a failed buffer allocation has run, exactly one
\* diagnostic line was printed for it.
C2_EveryFailureLogged == alloc_failed => diag = 1

MainOrder == <<"print_cache_info", "run_latency_test", "run_stride_test",
               "run_cache_thrashing_test", "run_read_write_comparison",
               "run_detailed_l3_test", "analyze_results">>

\* C3: whatever allocations fail, the process never crashes, no unchecked
\* allocation result is dereferenced, and main returns 0 after calling the
\* report, the five sweeps and the analysis in their fixed order.
C3_NeverCrashes ==
    /\ pc # "crashed"
    /\ ~unchecked_deref
    /\ pc = "done" => exit_status = 0 /\ order = MainOrder

\* C4: in the state in which a kernel has taken its first timer reading, the
\* buffer it works on is allocated and all of its bytes were written by
\* memset since it was allocated.
C4_FilledBeforeTimed ==
    k.phase = "loop" =>
        /\ buffer = "live"
        /\ buf_size = (IF k.name = "assoc" THEN 2 * k.size ELSE k.size)
        /\ filled = buf_size

C4_Witness ==
    /\ k.phase = "loop"
    /\ k.name = "assoc"
    /\ k.ways = 32
    /\ filled = 2 * L3_CACHE_SIZE

StepStarts == {"lat_loop", "rw_loop", "l3_loop"}

\* what C5 says of freeing: at most one free per buffer, no access after the
\* free, nothing allocated when a step begins, a driver ends or main returns
FreedInTime ==
    /\ frees <= 1
    /\ (buffer = "freed") = (frees = 1)
    /\ ~uaf
    /\ pc \in StepStarts \cup DriverExits \cup {"thr_print", "main_ret", "done"}
          => live = 0 /\ buffer # "live"

IterPcs == {"lat_seq", "lat_rand", "lat_print", "lat_free",
            "rw_read", "rw_write", "rw_print", "rw_free",
            "l3_seq", "l3_rand", "l3_print", "l3_free"}

Zeros8 == <<0, 0, 0, 0, 0, 0, 0, 0>>

\* C8: in the latency, read/write and detailed-L3 sweeps the iteration count
\* of a step of size S is max(floor, 1000000 div (S div 4096 + 1)), floor
\* 100 (50 in the L3 sweep); it is at least the floor and positive; it is
\* not greater than the count of the last earlier step of the sweep (whose
\* size is not greater); and the bandwidth numerator size * iterations, as
\* computed in 64 bits for the printed row, equals the exact product.
C8_IterationScaling ==
    pc \in IterPcs =>
        LET S == CurSize
            floor == IF drv = "l3" THEN 50 ELSE 100
            q == 1000000 \div (S \div 4096 + 1)
        IN  /\ loc.iterations = (IF q > floor THEN q ELSE floor)
            /\ loc.iterations >= floor
            /\ loc.iterations > 0
            /\ prev.size > 0 /\ prev.size <= S
                  => loc.iterations <= prev.iterations
            /\ row.kind = "lat"
                  => row.bytes \o Zeros8 = FullMul(S, loc.iterations)

C8_Witness ==
    /\ pc = "lat_free"
    /\ row.kind = "lat"
    /\ loc.size = MAX_SIZE
    /\ loc.iterations = 100
    /\ prev.size = MAX_SIZE \div 2
    /\ prev.iterations = 100

\* C9: every row of the detailed L3 sweep has its ratios computed against a
\* baseline measured in this sweep, never against the initial value 0.
C9_RatioAgainstMeasuredBaseline ==
    row.kind = "l3" => row.base_measured

----------------------------------------------------------------------------
(* Properties of the kernels (KernelSpec) *)

\* the offsets 0, 64, 128, ... below S: ceil(S / 64) of them
LineOffsets(S) == [x \in 1 .. ((S + 63) \div 64) |-> (x - 1) * 64]

\* C6: the sequential-read and the sequential-write kernel make exactly
\* `iterations` passes, and every pass visits 0, 64, 128, ..., all below
\* size, ceil(size / 64) offsets in increasing order.
C6_SequentialTraversal ==
    kern.name \in {"sequential", "write"} =>
        /\ \A p \in 1 .. Len(kern.log) : kern.log[p] = LineOffsets(kern.size)
        /\ \A x \in 1 .. Len(kern.visited) :
              /\ kern.visited[x] = (x - 1) * 64
              /\ kern.visited[x] < kern.size
        /\ Len(kern.log) <= kern.iterations
        /\ kern.pc = "ret" => Len(kern.log) = kern.iterations

C6_Witness ==
    /\ kern.name = "write"
    /\ kern.pc = "ret"
    /\ kern.size = 129
    /\ kern.log = << <<0, 64, 128>>, <<0, 64, 128>> >>

Touched ==
    { kern.visited[x] : x \in 1 .. Len(kern.visited) }
    \cup UNION { { kern.log[p][x] : x \in 1 .. Len(kern.log[p]) } :
                 p \in 1 .. Len(kern.log) }

\* C10: every offset a kernel touches lies inside the buffer it works on;
\* the random kernel's offsets are multiples of 8; each pass of the
\* associativity probe touches w * (C div ways) for w = 0..ways, inside
\* the 2*C bytes it allocated.
C10_AccessesInBounds ==
    /\ \A off \in Touched : 0 <= off /\ off < kern.buf_bytes
    /\ Touched # {} => kern.buf \in {"live", "freed"}
    /\ kern.name = "random" => \A off \in Touched : off % 8 = 0
    /\ kern.name = "assoc" =>
          /\ kern.buf \in {"live", "freed"} => kern.buf_bytes = 2 * kern.size
          /\ \A p \in 1 .. Len(kern.log) :
                kern.log[p] = [w \in 1 .. kern.ways + 1 |->
                                   (w - 1) * (kern.size \div kern.ways)]

C10_Witness ==
    /\ kern.name = "assoc"
    /\ kern.pc = "ret"
    /\ kern.size = L3_CACHE_SIZE
    /\ kern.ways = 32
    /\ Len(kern.log) = 2
    /\ kern.log[2][33] = L3_CACHE_SIZE

====
